---- MODULE Spec2Model ----
(***************************************************************************)
(* Model of fabio's route synchronizer (main.go, watchBackend) and of its  *)
(* listener orchestration and graceful shutdown (listen.go).               *)
(*                                                                         *)
(* A configuration text is a sequence of characters.  The characters "a"   *)
(* and "b" stand for well-formed route commands, "x" for a malformed one,  *)
(* and NL is the line separator "\n".                                      *)
(***************************************************************************)
EXTENDS Integers, Sequences, FiniteSets, TLC

\* ------------------------------------------------------------------ bounds

\* Number of emissions the two backend streams deliver in one run.
MaxEmits == 3

\* Number of times the shutdown callback is invoked in one run.
MaxFires == 2

\* Number of connections that arrive at the listeners in one run.
MaxConns == 2

\* ------------------------------------------------------------------ texts

NL == "\n"

\* The values a backend stream can emit (complete configuration texts).
Texts == { <<>>, <<"a">>, <<"b">>, <<"x">>, <<"b", NL, "a">> }

\* The empty routing table that is visible before the first publication.
EmptySnapshot == <<>>

\* ------------------------------------------------- route synchronizer state

VARIABLES
    svccfg,     \* watchBackend: last value received on the service stream
    mancfg,     \* watchBackend: last value received on the manual stream
    last,       \* watchBackend: merged text of the last publication
    next,       \* watchBackend: merged text of the current iteration
    t,          \* watchBackend: table returned by route.ParseString (0 = nil)
    wbPc,       \* watchBackend: position in the loop
    heap,       \* routing tables allocated so far, by address
    table,      \* route package: address of the published table (0 = nil)
    recvLog,    \* history: <<stream, value>> of every receive
    mergeLog,   \* history: merged text of every iteration
    parseLog,   \* history: every text handed to route.ParseString
    pubLog,     \* history: content of every table handed to route.SetTable
    rdPc,       \* request handler: position
    rdPtr,      \* request handler: table address it loaded
    rdView,     \* request handler: entries it has read so far
    rdExpect    \* history: content of the published table when rdPtr was loaded

\* ------------------------------------------------------------ listener state

VARIABLES
    listen,         \* the listener configuration list (protocol tags)
    quit,           \* the quit channel: [closed, senders]
    proc,           \* the process: "running", "panicked", "fatal", "exited"
    fires,          \* number of invocations of the shutdown callback
    slPc,           \* startListeners: position
    slIdx,          \* startListeners: index of the next configuration entry
    slLog,          \* history: shutdown steps startListeners has performed
    shutdownCalls,  \* number of calls of proxy.Shutdown
    lnPc,           \* per listener goroutine: position
    sock,           \* per listener: "unbound", "open", "closed"
    tlsCfg,         \* per listener: srv.TLSConfig is set
    wrapped,        \* per listener: the listener is wrapped by tls.NewListener
    closerPc,       \* per tcp+sni listener: position of the closing goroutine
    lateSpawn,      \* history: closers spawned when quit had already fired
    arrived,        \* number of connections that have arrived
    handlers,       \* number of handler goroutines started
    finished,       \* number of handler goroutines that have finished
    errCause,       \* history, per listener: cause of its last accept error
    accepted,       \* history, per listener: connections Accept returned
    served,         \* history, per listener: connections handed to a handler
    certRes         \* history, per listener: outcome of the two TLS
                    \* construction steps, << >> before they ran

syncVars == << svccfg, mancfg, last, next, t, wbPc, heap, table,
               recvLog, mergeLog, parseLog, pubLog >>
readerVars == << rdPc, rdPtr, rdView, rdExpect >>
listenVars == << listen, quit, proc, fires, slPc, slIdx, slLog, shutdownCalls,
                 lnPc, sock, tlsCfg, wrapped, closerPc, lateSpawn, arrived,
                 handlers, finished, errCause, accepted, served, certRes >>

histVars == << finished, errCause, accepted, served, certRes >>

vars == << syncVars, readerVars, listenVars >>

\* ------------------------------------------------------------ pure helpers

Last(s) == s[Len(s)]

\* The lines of a text: the maximal NL-free runs, in order.
RECURSIVE SplitLines(_, _)
SplitLines(txt, cur) ==
    IF txt = <<>> THEN << cur >>
    ELSE IF Head(txt) = NL THEN << cur >> \o SplitLines(Tail(txt), <<>>)
    ELSE SplitLines(Tail(txt), Append(cur, Head(txt)))

RECURSIVE DropEmpty(_)
DropEmpty(ls) ==
    IF ls = <<>> THEN <<>>
    ELSE IF Head(ls) = <<>> THEN DropEmpty(Tail(ls))
    ELSE << Head(ls) >> \o DropEmpty(Tail(ls))

\* route.ParseString: a table holding the non-empty lines in text order, or
\* an error when a line is malformed.
ParseString(txt) ==
    LET ls == DropEmpty(SplitLines(txt, <<>>))
        bad == \E i \in 1..Len(ls) : \E j \in 1..Len(ls[i]) : ls[i][j] = "x"
    IN  IF bad THEN [err |-> TRUE, snap |-> <<>>]
        ELSE [err |-> FALSE, snap |-> ls]

MergeNoSeparator(s, m) == s \o m

\* main.go:234  next := svccfg + "\n" + mancfg
MergeManualFirst(s, m) == m \o << NL >> \o s
Merge(s, m) == s \o << NL >> \o m

\* ------------------------------------------------------- route synchronizer

InitSync ==
    /\ svccfg = <<>>
    /\ mancfg = <<>>
    /\ last = <<>>
    /\ next = <<>>
    /\ t = 0
    /\ wbPc = "select"
    /\ heap = << EmptySnapshot >>
    /\ table = 1
    /\ recvLog = <<>>
    /\ mergeLog = <<>>
    /\ parseLog = <<>>
    /\ pubLog = <<>>

InitReader ==
    /\ rdPc = "idle"
    /\ rdPtr = 0
    /\ rdView = <<>>
    /\ rdExpect = <<>>

\* main.go:228  case svccfg = <-svc
WbRecvSvcClearsManual(v) ==
    /\ wbPc = "select"
    /\ Len(recvLog) < MaxEmits
    /\ svccfg' = v
    /\ mancfg' = <<>>
    /\ recvLog' = Append(recvLog, << "svc", v >>)
    /\ wbPc' = "merge"
    /\ UNCHANGED << last, next, t, heap, table, mergeLog, parseLog, pubLog >>
    /\ UNCHANGED << readerVars, listenVars >>

WbRecvSvc(v) ==
    /\ wbPc = "select"
    /\ Len(recvLog) < MaxEmits
    /\ svccfg' = v
    /\ recvLog' = Append(recvLog, << "svc", v >>)
    /\ wbPc' = "merge"
    /\ UNCHANGED << mancfg, last, next, t, heap, table, mergeLog, parseLog, pubLog >>
    /\ UNCHANGED << readerVars, listenVars >>

\* main.go:229  case mancfg = <-man
WbRecvMan(v) ==
    /\ wbPc = "select"
    /\ Len(recvLog) < MaxEmits
    /\ mancfg' = v
    /\ recvLog' = Append(recvLog, << "man", v >>)
    /\ wbPc' = "merge"
    /\ UNCHANGED << svccfg, last, next, t, heap, table, mergeLog, parseLog, pubLog >>
    /\ UNCHANGED << readerVars, listenVars >>

\* main.go:234-237  next := svccfg + "\n" + mancfg; if next == last { continue }
WbMergeNoSuppress ==
    /\ wbPc = "merge"
    /\ next' = Merge(svccfg, mancfg)
    /\ mergeLog' = Append(mergeLog, next')
    /\ wbPc' = "parse"
    /\ UNCHANGED << svccfg, mancfg, last, t, heap, table, recvLog, parseLog, pubLog >>
    /\ UNCHANGED << readerVars, listenVars >>

WbMerge ==
    /\ wbPc = "merge"
    /\ next' = Merge(svccfg, mancfg)
    /\ mergeLog' = Append(mergeLog, next')
    /\ wbPc' = IF next' = last THEN "select" ELSE "parse"
    /\ UNCHANGED << svccfg, mancfg, last, t, heap, table, recvLog, parseLog, pubLog >>
    /\ UNCHANGED << readerVars, listenVars >>

\* main.go:239-243  t, err := route.ParseString(next); on error warn and continue
WbParseIgnoreErr ==
    /\ wbPc = "parse"
    /\ parseLog' = Append(parseLog, next)
    /\ heap' = Append(heap, ParseString(next).snap)
    /\ t' = Len(heap) + 1
    /\ wbPc' = "settable"
    /\ UNCHANGED << svccfg, mancfg, last, next, table, recvLog, mergeLog, pubLog >>
    /\ UNCHANGED << readerVars, listenVars >>

WbParseFatal ==
    /\ wbPc = "parse"
    /\ parseLog' = Append(parseLog, next)
    /\ IF ParseString(next).err
         THEN /\ t' = 0
              /\ heap' = heap
              /\ wbPc' = "stopped"
         ELSE /\ heap' = Append(heap, ParseString(next).snap)
              /\ t' = Len(heap) + 1
              /\ wbPc' = "settable"
    /\ UNCHANGED << svccfg, mancfg, last, next, table, recvLog, mergeLog, pubLog >>
    /\ UNCHANGED << readerVars, listenVars >>

WbParse ==
    /\ wbPc = "parse"
    /\ parseLog' = Append(parseLog, next)
    /\ IF ParseString(next).err
         THEN /\ t' = 0
              /\ heap' = heap
              /\ wbPc' = "select"
         ELSE /\ heap' = Append(heap, ParseString(next).snap)
              /\ t' = Len(heap) + 1
              /\ wbPc' = "settable"
    /\ UNCHANGED << svccfg, mancfg, last, next, table, recvLog, mergeLog, pubLog >>
    /\ UNCHANGED << readerVars, listenVars >>

\* route.SetTable: replaces the published table address in one step.
SetTableInPlace(tt) ==
    /\ heap' = [heap EXCEPT ![table] = heap[tt]]
    /\ table' = table

SetTable(tt) ==
    /\ table' = tt
    /\ heap' = heap

\* main.go:244  route.SetTable(t)
WbSetTable ==
    /\ wbPc = "settable"
    /\ SetTable(t)
    /\ pubLog' = Append(pubLog, heap[t])
    /\ wbPc' = "setlast"
    /\ UNCHANGED << svccfg, mancfg, last, next, t, recvLog, mergeLog, parseLog >>
    /\ UNCHANGED << readerVars, listenVars >>

WbSetLastWrong ==
    /\ wbPc = "setlast"
    /\ last' = svccfg
    /\ wbPc' = "select"
    /\ UNCHANGED << svccfg, mancfg, next, t, heap, table, recvLog, mergeLog,
                    parseLog, pubLog >>
    /\ UNCHANGED << readerVars, listenVars >>

\* main.go:246  last = next
WbSetLast ==
    /\ wbPc = "setlast"
    /\ last' = next
    /\ wbPc' = "select"
    /\ UNCHANGED << svccfg, mancfg, next, t, heap, table, recvLog, mergeLog,
                    parseLog, pubLog >>
    /\ UNCHANGED << readerVars, listenVars >>

\* ------------------------------------------------- request-handling readers

\* A request handler loads the address of the published table ...
RdLoad ==
    /\ rdPc = "idle"
    /\ rdPtr' = table
    /\ rdView' = <<>>
    /\ rdExpect' = IF pubLog = <<>> THEN EmptySnapshot ELSE Last(pubLog)
    /\ rdPc' = "reading"
    /\ UNCHANGED << syncVars, listenVars >>

\* ... reads the entries of that table one at a time ...
RdRead ==
    /\ rdPc = "reading"
    /\ Len(rdView) < Len(heap[rdPtr])
    /\ rdView' = Append(rdView, heap[rdPtr][Len(rdView) + 1])
    /\ UNCHANGED << rdPc, rdPtr, rdExpect >>
    /\ UNCHANGED << syncVars, listenVars >>

\* ... and has the whole table once no entry is left.
RdDone ==
    /\ rdPc = "reading"
    /\ Len(rdView) >= Len(heap[rdPtr])
    /\ rdPc' = "done"
    /\ UNCHANGED << rdPtr, rdView, rdExpect >>
    /\ UNCHANGED << syncVars, listenVars >>

\* The request ends; the next request starts from scratch.
RdReset ==
    /\ rdPc = "done"
    /\ rdPc' = "idle"
    /\ rdPtr' = 0
    /\ rdView' = <<>>
    /\ rdExpect' = <<>>
    /\ UNCHANGED << syncVars, listenVars >>

\* ------------------------------------------------------ the quit channel

\* The listener configuration lists the model starts from.
Configs ==
    { << "tcp+sni" >>, << "http" >>, << "https" >>,
      << "tcp+sni", "http" >>, << "https", "tcp+sni" >>,
      << "tcp+sni", "tcp+sni" >>, << "http", "ftp" >>, << "ftp", "tcp+sni" >> }

Listeners == 1..Len(listen)

\* A receive from an unbuffered channel can proceed when the channel is closed
\* or a sender is blocked on it.
ChanRecvReady(ch) == ch.closed \/ ch.senders > 0

\* A receive takes the value of a blocked sender, releasing it; a receive from
\* a closed channel leaves the channel as it is.
ChanAfterRecv(ch) ==
    IF ch.senders > 0 THEN [ch EXCEPT !.senders = @ - 1] ELSE ch

InitListen ==
    /\ listen \in Configs
    /\ quit = [closed |-> FALSE, senders |-> 0]
    /\ proc = "running"
    /\ fires = 0
    /\ slPc = "loop"
    /\ slIdx = 1
    /\ slLog = <<>>
    /\ shutdownCalls = 0
    /\ lnPc = [i \in Listeners |-> "none"]
    /\ sock = [i \in Listeners |-> "unbound"]
    /\ tlsCfg = [i \in Listeners |-> FALSE]
    /\ wrapped = [i \in Listeners |-> FALSE]
    /\ closerPc = [i \in Listeners |-> "none"]
    /\ lateSpawn = {}
    /\ arrived = 0
    /\ handlers = 0
    /\ finished = 0
    /\ errCause = [i \in Listeners |-> "none"]
    /\ accepted = [i \in Listeners |-> 0]
    /\ served = [i \in Listeners |-> 0]
    /\ certRes = [i \in Listeners |-> << >>]

\* listen.go:21  func(os.Signal) { close(quit) }
\* Closing a closed channel panics.
QuitCallbackSend ==
    /\ quit' = [quit EXCEPT !.senders = @ + 1]
    /\ proc' = proc

QuitCallback ==
    IF quit.closed
    THEN /\ proc' = "panicked"
         /\ quit' = quit
    ELSE /\ quit' = [quit EXCEPT !.closed = TRUE]
         /\ proc' = proc

\* The signal-registration mechanism invokes the registered callback.
FireShutdown ==
    /\ proc = "running"
    /\ fires < MaxFires
    /\ fires' = fires + 1
    /\ QuitCallback
    /\ UNCHANGED << listen, slPc, slIdx, slLog, shutdownCalls, lnPc, sock, tlsCfg,
                    wrapped, closerPc, lateSpawn, arrived, handlers >>
    /\ UNCHANGED << syncVars, readerVars >>
    /\ UNCHANGED histVars

\* ---------------------------------------------------------- startListeners

\* listen.go:48-57  one iteration of the loop over the configuration list
SlLoopSkipsLast ==
    /\ proc = "running"
    /\ slPc = "loop"
    /\ IF slIdx >= Len(listen)
         THEN /\ slPc' = "wait"
              /\ UNCHANGED << slIdx, lnPc, proc >>
         ELSE IF listen[slIdx] \in { "tcp+sni", "http", "https" }
         THEN /\ lnPc' = [lnPc EXCEPT ![slIdx] = "start"]
              /\ slIdx' = slIdx + 1
              /\ UNCHANGED << slPc, proc >>
         ELSE /\ proc' = "panicked"
              /\ UNCHANGED << slPc, slIdx, lnPc >>
    /\ UNCHANGED << listen, quit, fires, slLog, shutdownCalls, sock, tlsCfg,
                    wrapped, closerPc, lateSpawn, arrived, handlers >>
    /\ UNCHANGED << syncVars, readerVars >>
    /\ UNCHANGED histVars

SlLoop ==
    /\ proc = "running"
    /\ slPc = "loop"
    /\ IF slIdx > Len(listen)
         THEN /\ slPc' = "wait"
              /\ UNCHANGED << slIdx, lnPc, proc >>
         ELSE IF listen[slIdx] \in { "tcp+sni", "http", "https" }
         THEN /\ lnPc' = [lnPc EXCEPT ![slIdx] = "start"]
              /\ slIdx' = slIdx + 1
              /\ UNCHANGED << slPc, proc >>
         ELSE /\ proc' = "panicked"
              /\ UNCHANGED << slPc, slIdx, lnPc >>
    /\ UNCHANGED << listen, quit, fires, slLog, shutdownCalls, sock, tlsCfg,
                    wrapped, closerPc, lateSpawn, arrived, handlers >>
    /\ UNCHANGED << syncVars, readerVars >>
    /\ UNCHANGED histVars

\* listen.go:60  <-quit
SlWaitQuitSkipped ==
    /\ proc = "running"
    /\ slPc = "wait"
    /\ slPc' = "shutdown"
    /\ UNCHANGED << listen, quit, proc, fires, slIdx, slLog, shutdownCalls, lnPc,
                    sock, tlsCfg, wrapped, closerPc, lateSpawn, arrived, handlers >>
    /\ UNCHANGED << syncVars, readerVars >>
    /\ UNCHANGED histVars

SlWaitQuit ==
    /\ proc = "running"
    /\ slPc = "wait"
    /\ ChanRecvReady(quit)
    /\ quit' = ChanAfterRecv(quit)
    /\ slPc' = "shutdown"
    /\ UNCHANGED << listen, proc, fires, slIdx, slLog, shutdownCalls, lnPc,
                    sock, tlsCfg, wrapped, closerPc, lateSpawn, arrived, handlers >>
    /\ UNCHANGED << syncVars, readerVars >>
    /\ UNCHANGED histVars

\* listen.go:63  proxy.Shutdown()
SlShutdown ==
    /\ proc = "running"
    /\ slPc = "shutdown"
    /\ shutdownCalls' = shutdownCalls + 1
    /\ slLog' = Append(slLog, "shutdown")
    /\ slPc' = "sleep"
    /\ UNCHANGED << listen, quit, proc, fires, slIdx, lnPc, sock, tlsCfg,
                    wrapped, closerPc, lateSpawn, arrived, handlers >>
    /\ UNCHANGED << syncVars, readerVars >>
    /\ UNCHANGED histVars

\* listen.go:67  time.Sleep(wait) begins
SlSleepStart ==
    /\ proc = "running"
    /\ slPc = "sleep"
    /\ slLog' = Append(slLog, "sleepStart")
    /\ slPc' = "sleeping"
    /\ UNCHANGED << listen, quit, proc, fires, slIdx, shutdownCalls, lnPc, sock,
                    tlsCfg, wrapped, closerPc, lateSpawn, arrived, handlers >>
    /\ UNCHANGED << syncVars, readerVars >>
    /\ UNCHANGED histVars

\* listen.go:67-69  the grace duration has elapsed; startListeners returns
SlSleepEndWaitsForHandlers ==
    /\ proc = "running"
    /\ slPc = "sleeping"
    /\ finished = handlers
    /\ slLog' = slLog \o << "sleepEnd", "return" >>
    /\ slPc' = "returned"
    /\ UNCHANGED << listen, quit, proc, fires, slIdx, shutdownCalls, lnPc, sock,
                    tlsCfg, wrapped, closerPc, lateSpawn, arrived, handlers >>
    /\ UNCHANGED << syncVars, readerVars >>
    /\ UNCHANGED histVars

SlSleepEnd ==
    /\ proc = "running"
    /\ slPc = "sleeping"
    /\ slLog' = slLog \o << "sleepEnd", "return" >>
    /\ slPc' = "returned"
    /\ UNCHANGED << listen, quit, proc, fires, slIdx, shutdownCalls, lnPc, sock,
                    tlsCfg, wrapped, closerPc, lateSpawn, arrived, handlers >>
    /\ UNCHANGED << syncVars, readerVars >>
    /\ UNCHANGED histVars

\* main.go:81-85  main returns after startListeners: the process exits and
\* every goroutine still running is abandoned.
MainExit ==
    /\ proc = "running"
    /\ slPc = "returned"
    /\ proc' = "exited"
    /\ UNCHANGED << listen, quit, fires, slPc, slIdx, slLog, shutdownCalls, lnPc,
                    sock, tlsCfg, wrapped, closerPc, lateSpawn, arrived, handlers >>
    /\ UNCHANGED << syncVars, readerVars >>
    /\ UNCHANGED histVars

\* ------------------------------------------------ listenAndServeTCP (tcp+sni)

\* listen.go:86-91  net.Listen; a bind failure is fatal
TcpListen(i, ok) ==
    /\ proc = "running"
    /\ listen[i] = "tcp+sni"
    /\ lnPc[i] = "start"
    /\ IF ok
         THEN /\ sock' = [sock EXCEPT ![i] = "open"]
              /\ lnPc' = [lnPc EXCEPT ![i] = "spawn"]
              /\ proc' = proc
         ELSE /\ proc' = "fatal"
              /\ UNCHANGED << sock, lnPc >>
    /\ UNCHANGED << listen, quit, fires, slPc, slIdx, slLog, shutdownCalls, tlsCfg,
                    wrapped, closerPc, lateSpawn, arrived, handlers >>
    /\ UNCHANGED << syncVars, readerVars >>
    /\ UNCHANGED histVars

\* listen.go:94-97  go func() { <-quit; ln.Close() }()
TcpSpawnCloser(i) ==
    /\ proc = "running"
    /\ listen[i] = "tcp+sni"
    /\ lnPc[i] = "spawn"
    /\ closerPc' = [closerPc EXCEPT ![i] = "wait"]
    /\ lateSpawn' = IF ChanRecvReady(quit) THEN lateSpawn \cup {i} ELSE lateSpawn
    /\ lnPc' = [lnPc EXCEPT ![i] = "accept"]
    /\ UNCHANGED << listen, quit, proc, fires, slPc, slIdx, slLog, shutdownCalls,
                    sock, tlsCfg, wrapped, arrived, handlers >>
    /\ UNCHANGED << syncVars, readerVars >>
    /\ UNCHANGED histVars

\* listen.go:95  <-quit in the closing goroutine
CloserRecvQuitNoWait(i) ==
    /\ proc = "running"
    /\ closerPc[i] = "wait"
    /\ closerPc' = [closerPc EXCEPT ![i] = "close"]
    /\ UNCHANGED << listen, quit, proc, fires, slPc, slIdx, slLog, shutdownCalls, lnPc,
                    sock, tlsCfg, wrapped, lateSpawn, arrived, handlers >>
    /\ UNCHANGED << syncVars, readerVars >>
    /\ UNCHANGED histVars

CloserRecvQuit(i) ==
    /\ proc = "running"
    /\ closerPc[i] = "wait"
    /\ ChanRecvReady(quit)
    /\ quit' = ChanAfterRecv(quit)
    /\ closerPc' = [closerPc EXCEPT ![i] = "close"]
    /\ UNCHANGED << listen, proc, fires, slPc, slIdx, slLog, shutdownCalls, lnPc,
                    sock, tlsCfg, wrapped, lateSpawn, arrived, handlers >>
    /\ UNCHANGED << syncVars, readerVars >>
    /\ UNCHANGED histVars

\* listen.go:96  ln.Close() in the closing goroutine
CloserCloseForgets(i) ==
    /\ proc = "running"
    /\ closerPc[i] = "close"
    /\ closerPc' = [closerPc EXCEPT ![i] = "done"]
    /\ UNCHANGED << listen, quit, proc, fires, slPc, slIdx, slLog, shutdownCalls,
                    lnPc, sock, tlsCfg, wrapped, lateSpawn, arrived, handlers >>
    /\ UNCHANGED << syncVars, readerVars >>
    /\ UNCHANGED histVars

CloserClose(i) ==
    /\ proc = "running"
    /\ closerPc[i] = "close"
    /\ sock' = [sock EXCEPT ![i] = "closed"]
    /\ closerPc' = [closerPc EXCEPT ![i] = "done"]
    /\ UNCHANGED << listen, quit, proc, fires, slPc, slIdx, slLog, shutdownCalls,
                    lnPc, tlsCfg, wrapped, lateSpawn, arrived, handlers >>
    /\ UNCHANGED << syncVars, readerVars >>
    /\ UNCHANGED histVars

\* listen.go:101  ln.Accept() returns a connection
TcpAcceptConn(i) ==
    /\ proc = "running"
    /\ listen[i] = "tcp+sni"
    /\ lnPc[i] = "accept"
    /\ sock[i] = "open"
    /\ arrived < MaxConns
    /\ arrived' = arrived + 1
    /\ lnPc' = [lnPc EXCEPT ![i] = "dispatch"]
    /\ UNCHANGED << listen, quit, proc, fires, slPc, slIdx, slLog, shutdownCalls,
                    sock, tlsCfg, wrapped, closerPc, lateSpawn, handlers >>
    /\ UNCHANGED << syncVars, readerVars >>
    /\ accepted' = [accepted EXCEPT ![i] = @ + 1]
    /\ UNCHANGED << finished, errCause, served, certRes >>

\* listen.go:101, 173-185  ln.Accept() returns an error: the socket was closed,
\* or accepting or the keep-alive setup of a connection failed
TcpAcceptErr(i) ==
    /\ proc = "running"
    /\ listen[i] = "tcp+sni"
    /\ lnPc[i] = "accept"
    /\ \/ /\ sock[i] = "closed"
          /\ arrived' = arrived
          /\ errCause' = [errCause EXCEPT ![i] = "closed"]
       \/ /\ sock[i] = "open"
          /\ arrived < MaxConns
          /\ arrived' = arrived + 1
          /\ \E c \in { "accept", "keepalive" } :
                errCause' = [errCause EXCEPT ![i] = c]
    /\ lnPc' = [lnPc EXCEPT ![i] = "check"]
    /\ UNCHANGED << listen, quit, proc, fires, slPc, slIdx, slLog, shutdownCalls,
                    sock, tlsCfg, wrapped, closerPc, lateSpawn, handlers >>
    /\ UNCHANGED << syncVars, readerVars >>
    /\ UNCHANGED << finished, accepted, served, certRes >>

TcpCheckQuitContinue(i) ==
    /\ proc = "running"
    /\ listen[i] = "tcp+sni"
    /\ lnPc[i] = "check"
    /\ IF ChanRecvReady(quit)
         THEN /\ quit' = ChanAfterRecv(quit)
              /\ sock' = [sock EXCEPT ![i] = "closed"]
              /\ lnPc' = [lnPc EXCEPT ![i] = "exited"]
              /\ proc' = proc
         ELSE /\ lnPc' = [lnPc EXCEPT ![i] = "accept"]
              /\ UNCHANGED << quit, sock, proc >>
    /\ UNCHANGED << listen, fires, slPc, slIdx, slLog, shutdownCalls, tlsCfg,
                    wrapped, closerPc, lateSpawn, arrived, handlers >>
    /\ UNCHANGED << syncVars, readerVars >>
    /\ UNCHANGED histVars

\* listen.go:102-109, 91  on an accept error: return (the deferred ln.Close()
\* runs) when quit has fired, exit.Fatal otherwise
TcpCheckQuit(i) ==
    /\ proc = "running"
    /\ listen[i] = "tcp+sni"
    /\ lnPc[i] = "check"
    /\ IF ChanRecvReady(quit)
         THEN /\ quit' = ChanAfterRecv(quit)
              /\ sock' = [sock EXCEPT ![i] = "closed"]
              /\ lnPc' = [lnPc EXCEPT ![i] = "exited"]
              /\ proc' = proc
         ELSE /\ proc' = "fatal"
              /\ UNCHANGED << quit, sock, lnPc >>
    /\ UNCHANGED << listen, fires, slPc, slIdx, slLog, shutdownCalls, tlsCfg,
                    wrapped, closerPc, lateSpawn, arrived, handlers >>
    /\ UNCHANGED << syncVars, readerVars >>
    /\ UNCHANGED histVars

\* listen.go:111  go h.Serve(conn)
TcpDispatchWaits(i) ==
    /\ proc = "running"
    /\ listen[i] = "tcp+sni"
    /\ lnPc[i] = "dispatch"
    /\ handlers' = handlers + 1
    /\ lnPc' = [lnPc EXCEPT ![i] = "serving"]
    /\ UNCHANGED << listen, quit, proc, fires, slPc, slIdx, slLog, shutdownCalls,
                    sock, tlsCfg, wrapped, closerPc, lateSpawn, arrived >>
    /\ UNCHANGED << syncVars, readerVars >>
    /\ served' = [served EXCEPT ![i] = @ + 1]
    /\ UNCHANGED << finished, errCause, accepted, certRes >>

TcpDispatch(i) ==
    /\ proc = "running"
    /\ listen[i] = "tcp+sni"
    /\ lnPc[i] = "dispatch"
    /\ handlers' = handlers + 1
    /\ lnPc' = [lnPc EXCEPT ![i] = "accept"]
    /\ UNCHANGED << listen, quit, proc, fires, slPc, slIdx, slLog, shutdownCalls,
                    sock, tlsCfg, wrapped, closerPc, lateSpawn, arrived >>
    /\ UNCHANGED << syncVars, readerVars >>
    /\ served' = [served EXCEPT ![i] = @ + 1]
    /\ UNCHANGED << finished, errCause, accepted, certRes >>

\* --------------------------------------------- listenAndServeHTTP (http, https)

\* The outcomes of cert.NewSource and cert.TLSConfig: both succeed, the second
\* fails, or the first fails (and the second is not attempted).
CertOutcomes == { << TRUE, TRUE >>, << TRUE, FALSE >>, << FALSE >> }

HttpConfigFallback(i, res) ==
    /\ proc = "running"
    /\ listen[i] \in { "http", "https" }
    /\ lnPc[i] = "start"
    /\ IF listen[i] = "https"
         THEN /\ certRes' = [certRes EXCEPT ![i] = res]
              /\ tlsCfg' = [tlsCfg EXCEPT ![i] = (res = << TRUE, TRUE >>)]
         ELSE UNCHANGED << tlsCfg, certRes >>
    /\ lnPc' = [lnPc EXCEPT ![i] = "listen"]
    /\ UNCHANGED << listen, quit, proc, fires, slPc, slIdx, slLog, shutdownCalls,
                    sock, wrapped, closerPc, lateSpawn, arrived, handlers >>
    /\ UNCHANGED << syncVars, readerVars >>
    /\ UNCHANGED << finished, errCause, accepted, served >>

\* listen.go:116-133  build the server; for https build the certificate source
\* and the TLS configuration, either failure being fatal
HttpConfig(i, res) ==
    /\ proc = "running"
    /\ listen[i] \in { "http", "https" }
    /\ lnPc[i] = "start"
    /\ IF listen[i] = "https"
         THEN /\ certRes' = [certRes EXCEPT ![i] = res]
              /\ IF res = << TRUE, TRUE >>
                   THEN /\ tlsCfg' = [tlsCfg EXCEPT ![i] = TRUE]
                        /\ lnPc' = [lnPc EXCEPT ![i] = "listen"]
                        /\ proc' = proc
                   ELSE /\ proc' = "fatal"
                        /\ UNCHANGED << tlsCfg, lnPc >>
         ELSE /\ lnPc' = [lnPc EXCEPT ![i] = "listen"]
              /\ UNCHANGED << tlsCfg, certRes, proc >>
    /\ UNCHANGED << listen, quit, fires, slPc, slIdx, slLog, shutdownCalls, sock,
                    wrapped, closerPc, lateSpawn, arrived, handlers >>
    /\ UNCHANGED << syncVars, readerVars >>
    /\ UNCHANGED << finished, errCause, accepted, served >>

\* listen.go:149-161  serve: net.Listen (a bind failure is fatal), wrap with
\* TLS when srv.TLSConfig is set, enter srv.Serve
HttpListen(i, ok) ==
    /\ proc = "running"
    /\ listen[i] \in { "http", "https" }
    /\ lnPc[i] = "listen"
    /\ IF ok
         THEN /\ sock' = [sock EXCEPT ![i] = "open"]
              /\ wrapped' = [wrapped EXCEPT ![i] = tlsCfg[i]]
              /\ lnPc' = [lnPc EXCEPT ![i] = "accept"]
              /\ proc' = proc
         ELSE /\ proc' = "fatal"
              /\ UNCHANGED << sock, wrapped, lnPc >>
    /\ UNCHANGED << listen, quit, fires, slPc, slIdx, slLog, shutdownCalls, tlsCfg,
                    closerPc, lateSpawn, arrived, handlers >>
    /\ UNCHANGED << syncVars, readerVars >>
    /\ UNCHANGED histVars

\* listen.go:161  srv.Serve accepts a connection and serves it concurrently
HttpAcceptConn(i) ==
    /\ proc = "running"
    /\ listen[i] \in { "http", "https" }
    /\ lnPc[i] = "accept"
    /\ sock[i] = "open"
    /\ arrived < MaxConns
    /\ arrived' = arrived + 1
    /\ handlers' = handlers + 1
    /\ UNCHANGED << listen, quit, proc, fires, slPc, slIdx, slLog, shutdownCalls,
                    lnPc, sock, tlsCfg, wrapped, closerPc, lateSpawn >>
    /\ UNCHANGED << syncVars, readerVars >>
    /\ accepted' = [accepted EXCEPT ![i] = @ + 1]
    /\ served' = [served EXCEPT ![i] = @ + 1]
    /\ UNCHANGED << finished, errCause, certRes >>

\* listen.go:144-146, 161, 173-185  Accept fails inside srv.Serve: an error
\* that is temporary is retried by srv.Serve, any other is returned by it and
\* is fatal
HttpAcceptErr(i, temporary) ==
    /\ proc = "running"
    /\ listen[i] \in { "http", "https" }
    /\ lnPc[i] = "accept"
    /\ sock[i] = "open"
    /\ arrived < MaxConns
    /\ arrived' = arrived + 1
    /\ \E c \in { "accept", "keepalive" } :
          errCause' = [errCause EXCEPT ![i] = c]
    /\ proc' = IF temporary THEN proc ELSE "fatal"
    /\ UNCHANGED << listen, quit, fires, slPc, slIdx, slLog, shutdownCalls,
                    lnPc, sock, tlsCfg, wrapped, closerPc, lateSpawn, handlers >>
    /\ UNCHANGED << syncVars, readerVars >>
    /\ UNCHANGED << finished, accepted, served, certRes >>

\* --------------------------------------------------------------- handlers

\* A handler goroutine (h.Serve, or the http server's per-connection
\* goroutine) finishes with its connection.
HandlerFinish ==
    /\ proc = "running"
    /\ finished < handlers
    /\ finished' = finished + 1
    /\ UNCHANGED << listen, quit, proc, fires, slPc, slIdx, slLog, shutdownCalls,
                    lnPc, sock, tlsCfg, wrapped, closerPc, lateSpawn, arrived,
                    handlers, errCause, accepted, served, certRes >>
    /\ UNCHANGED << syncVars, readerVars >>

\* ------------------------------------------------------------ specifications

Init == InitSync /\ InitReader /\ InitListen

NextSync ==
    \/ \E v \in Texts : WbRecvSvc(v)
    \/ \E v \in Texts : WbRecvMan(v)
    \/ WbMerge
    \/ WbParse
    \/ WbSetTable
    \/ WbSetLast
    \/ RdLoad
    \/ RdRead
    \/ RdDone
    \/ RdReset

NextListen ==
    \/ FireShutdown
    \/ SlLoop
    \/ SlWaitQuit
    \/ SlShutdown
    \/ SlSleepStart
    \/ SlSleepEnd
    \/ MainExit
    \/ \E i \in Listeners, ok \in BOOLEAN : TcpListen(i, ok)
    \/ \E i \in Listeners : TcpSpawnCloser(i)
    \/ \E i \in Listeners : CloserRecvQuit(i)
    \/ \E i \in Listeners : CloserClose(i)
    \/ \E i \in Listeners : TcpAcceptConn(i)
    \/ \E i \in Listeners : TcpAcceptErr(i)
    \/ \E i \in Listeners : TcpCheckQuit(i)
    \/ \E i \in Listeners : TcpDispatch(i)
    \/ \E i \in Listeners, res \in CertOutcomes : HttpConfig(i, res)
    \/ \E i \in Listeners, ok \in BOOLEAN : HttpListen(i, ok)
    \/ \E i \in Listeners : HttpAcceptConn(i)
    \/ \E i \in Listeners, temporary \in BOOLEAN : HttpAcceptErr(i, temporary)
    \/ HandlerFinish

Next == NextSync \/ NextListen

\* The route synchronizer with a concurrent request handler.
\* The listeners take no step here, so one configuration list is enough.
InitOneConfig == Init /\ listen = << "http" >>

SpecSync == InitOneConfig /\ [][NextSync]_vars

\* The listeners, startListeners and the shutdown broadcast.
SpecListen == Init /\ [][NextListen]_vars

\* The same, with the goroutine running startListeners always scheduled
\* again while it has a step to take, and the grace sleep always ending.
SpecListenFair ==
    /\ Init
    /\ [][NextListen]_vars
    /\ WF_vars(SlLoop)
    /\ WF_vars(SlWaitQuit)
    /\ WF_vars(SlShutdown)
    /\ WF_vars(SlSleepStart)
    /\ WF_vars(SlSleepEnd)

\* The whole process.
Spec == Init /\ [][Next]_vars

\* ------------------------------------------------- route synchronizer claims

\* The last value received on a stream according to the receive history, the
\* empty string when the stream has not emitted.
LastOn(stream, log) ==
    LET idx == { i \in 1..Len(log) : log[i][1] = stream }
    IN  IF idx = {} THEN <<>>
        ELSE log[CHOOSE i \in idx : \A j \in idx : j <= i][2]

\* C1: the text handed to route.ParseString at any iteration is the last value
\* received on the service stream, then "\n", then the last value received on
\* the manual stream (the empty string for a stream that has not emitted);
\* every iteration's merged text is built that way.
C1_MergedText ==
    /\ [][parseLog' # parseLog =>
            /\ Len(parseLog') = Len(parseLog) + 1
            /\ Last(parseLog') =
                 LastOn("svc", recvLog) \o << NL >> \o LastOn("man", recvLog)]_vars
    /\ [](\A k \in 1..Len(mergeLog) :
            mergeLog[k] = LastOn("svc", SubSeq(recvLog, 1, k)) \o << NL >>
                            \o LastOn("man", SubSeq(recvLog, 1, k)))

\* Service emits S1, manual emits M1, manual emits M2 alone: the third text
\* parsed is S1 + "\n" + M2.
C1_Witness ==
    /\ Len(recvLog) = 3
    /\ recvLog[1][1] = "svc" /\ recvLog[1][2] = << "a" >>
    /\ recvLog[2][1] = "man" /\ recvLog[2][2] = << "b" >>
    /\ recvLog[3][1] = "man" /\ recvLog[3][2] = << "b", NL, "a" >>
    /\ Len(parseLog) = 3
    /\ parseLog[2] = << "a", NL, "b" >>
    /\ parseLog[3] = << "a", NL, "b", NL, "a" >>

\* C2: a receive overwrites only the slot of the stream that fired: a service
\* receive leaves mancfg unchanged, a manual receive leaves svccfg unchanged,
\* and neither changes the baseline last.
C2_ReceiveFrame ==
    [][Len(recvLog') > Len(recvLog) =>
         LET e == Last(recvLog')
         IN  /\ e[1] = "svc" => svccfg' = e[2] /\ mancfg' = mancfg
             /\ e[1] = "man" => mancfg' = e[2] /\ svccfg' = svccfg
             /\ last' = last]_vars

\* A service receive after the manual stream has emitted and a table has been
\* published.
C2_Witness ==
    /\ Len(recvLog) = 2
    /\ recvLog[1] = << "man", << "a" >> >>
    /\ recvLog[2] = << "svc", << "b" >> >>
    /\ wbPc = "merge"
    /\ mancfg = << "a" >>
    /\ svccfg = << "b" >>
    /\ last = << NL, "a" >>

\* The publications and the parsed texts a run over the merged texts must
\* produce: a text equal to the baseline is skipped, a text that fails to
\* parse is parsed but not published, any other text is parsed, published and
\* becomes the baseline.
RECURSIVE ExpectedPubs(_, _)
ExpectedPubs(log, base) ==
    IF log = <<>> THEN <<>>
    ELSE IF Head(log) = base THEN ExpectedPubs(Tail(log), base)
    ELSE IF ParseString(Head(log)).err THEN ExpectedPubs(Tail(log), base)
    ELSE << ParseString(Head(log)).snap >> \o ExpectedPubs(Tail(log), Head(log))

RECURSIVE ExpectedParses(_, _)
ExpectedParses(log, base) ==
    IF log = <<>> THEN <<>>
    ELSE IF Head(log) = base THEN ExpectedParses(Tail(log), base)
    ELSE IF ParseString(Head(log)).err
         THEN << Head(log) >> \o ExpectedParses(Tail(log), base)
    ELSE << Head(log) >> \o ExpectedParses(Tail(log), Head(log))

\* C3: a merged text identical to the last published one is neither parsed
\* nor published; so between iterations the publications are exactly those of
\* the merged texts that differ from the baseline and parse, in order (A then
\* A: one publication; A then B: two, A's table first).
C3_NoOpSuppression ==
    wbPc = "select" =>
        /\ pubLog = ExpectedPubs(mergeLog, <<>>)
        /\ parseLog = ExpectedParses(mergeLog, <<>>)

\* Merged texts A, A, B with A # B, all well-formed: two publications.
C3_Witness ==
    /\ wbPc = "select"
    /\ Len(mergeLog) = 3
    /\ mergeLog[1] = mergeLog[2]
    /\ mergeLog[3] # mergeLog[2]
    /\ Len(parseLog) = 2
    /\ Len(pubLog) = 2
    /\ pubLog[1] = ParseString(mergeLog[1]).snap
    /\ pubLog[2] = ParseString(mergeLog[3]).snap

\* C4: when route.ParseString fails, the published table is unchanged
\* (route.SetTable is not called), last is unchanged, and the loop goes back to
\* waiting on the two streams.
C4_ParseFailure ==
    [][(Len(parseLog') > Len(parseLog) /\ ParseString(Last(parseLog')).err) =>
         /\ table' = table
         /\ heap' = heap
         /\ pubLog' = pubLog
         /\ last' = last
         /\ wbPc' = "select"]_vars

\* A parse failure after a table has been published.
C4_Witness ==
    /\ wbPc = "select"
    /\ parseLog # <<>>
    /\ ParseString(Last(parseLog)).err
    /\ Last(mergeLog) = Last(parseLog)
    /\ Len(mergeLog) = Len(recvLog)
    /\ Len(pubLog) = 1
    /\ table = 2
    /\ last # Last(mergeLog)

\* C5: failed merged texts do not poison later ones: the loop keeps running,
\* and once an iteration is over whose merged text (from the retained service
\* and manual values) parses, that text is the baseline and its table is the
\* published one.
C5_NoPoison ==
    /\ wbPc \in { "select", "merge", "parse", "settable", "setlast" }
    /\ (wbPc = "select" /\ recvLog # <<>>
          /\ ~ParseString(svccfg \o << NL >> \o mancfg).err) =>
            /\ last = svccfg \o << NL >> \o mancfg
            /\ pubLog # <<>>
            /\ Last(pubLog) = ParseString(last).snap
            /\ heap[table] = ParseString(last).snap

\* Two failed merged texts, then one that parses and is published.
C5_Witness ==
    /\ wbPc = "select"
    /\ Len(parseLog) = 3
    /\ ParseString(parseLog[1]).err
    /\ ParseString(parseLog[2]).err
    /\ ~ParseString(parseLog[3]).err
    /\ last = parseLog[3]
    /\ Len(pubLog) = 1
    /\ heap[table] = ParseString(parseLog[3]).snap

\* C6: a request handler that has read a whole table has read exactly the
\* table that was published when it loaded the address, whatever
\* watchBackend published meanwhile; and no table, once allocated, changes.
C6_AtomicPublish ==
    /\ [](rdPc = "done" => rdView = rdExpect)
    /\ [](heap[table] = IF pubLog = <<>> THEN EmptySnapshot ELSE Last(pubLog))
    /\ [][\A a \in 1..Len(heap) : heap'[a] = heap[a]]_vars

\* A handler finished reading the old table after a new one was published.
C6_Witness ==
    /\ rdPc = "done"
    /\ rdView = rdExpect
    /\ Len(rdView) = 2
    /\ pubLog # <<>>
    /\ Last(pubLog) # rdExpect
    /\ heap[table] = Last(pubLog)

\* ------------------------------------------------------------ shutdown claims

ShutdownSteps == << "shutdown", "sleepStart", "sleepEnd", "return" >>

\* C7: startListeners calls proxy.Shutdown, starts the grace sleep and returns
\* only after quit has fired; proxy.Shutdown is called exactly once, before
\* the grace sleep begins, and the return comes after the sleep has finished.
C7_ShutdownOrder ==
    /\ slLog = SubSeq(ShutdownSteps, 1, Len(slLog))
    /\ slLog # <<>> => quit.closed /\ fires > 0
    /\ slPc \in { "shutdown", "sleep", "sleeping", "returned" } =>
          quit.closed /\ fires > 0
    /\ shutdownCalls = IF slLog = <<>> THEN 0 ELSE 1
    /\ slPc = "sleeping" => slLog = SubSeq(ShutdownSteps, 1, 2)
    /\ slPc = "returned" <=> slLog = ShutdownSteps

\* startListeners has returned after one call of proxy.Shutdown.
C7_Witness ==
    /\ slPc = "returned"
    /\ slLog = ShutdownSteps
    /\ shutdownCalls = 1
    /\ quit.closed

\* C8: a second invocation of the shutdown callback neither panics nor
\* blocks, and the signal remains fired.
C8_SecondFireHarmless ==
    fires >= 2 => proc # "panicked" /\ quit.closed /\ quit.senders = 0

\* Every goroutine that reacts to the signal has finished reacting to it.
ShutdownSettled ==
    \A i \in Listeners :
        /\ closerPc[i] \notin { "wait", "close" }
        /\ lnPc[i] \notin { "start", "spawn", "listen", "check", "dispatch" }
        /\ ~(lnPc[i] = "accept" /\ sock[i] = "closed")

\* C9: after the broadcast has fired once, every accept loop that was started,
\* tcp+sni or http/https, has exited with its socket closed by the time
\* startListeners returns (granting the grace sleep every step the goroutines
\* reacting to the signal can take).
C9_LoopsExitBeforeReturn ==
    (slPc = "returned" /\ fires = 1 /\ ShutdownSettled) =>
        \A i \in Listeners :
            lnPc[i] # "none" => lnPc[i] = "exited" /\ sock[i] = "closed"

\* C10: once quit has fired it stays fired; only the callback changes the
\* channel, so observing it takes nothing from other observers; and whoever
\* comes to observe it after it fired finds it fired: the waiting closer and
\* startListeners can proceed, and the accept loop's error check returns.
C10_QuitSticky ==
    /\ [][ChanRecvReady(quit) => ChanRecvReady(quit')]_vars
    /\ [][quit' # quit => fires' = fires + 1]_vars
    /\ []((ChanRecvReady(quit) /\ proc = "running") =>
            /\ \A i \in Listeners : closerPc[i] = "wait" => ENABLED CloserRecvQuit(i)
            /\ slPc = "wait" => ENABLED SlWaitQuit)
    /\ [][\A i \in Listeners :
            (ChanRecvReady(quit) /\ TcpCheckQuit(i)) =>
                lnPc'[i] = "exited" /\ proc' = "running"]_vars

\* A closer spawned after the signal fired has observed it, and so have
\* startListeners and the accept loop of the same listener.
C10_Witness ==
    /\ quit.closed
    /\ slPc = "sleep"
    /\ \E i \in lateSpawn : closerPc[i] = "done" /\ lnPc[i] = "exited"

\* ------------------------------------------------------------ listener claims

ValidProtos == { "tcp+sni", "http", "https" }

\* C11: when the configuration list holds an entry with a protocol tag outside
\* the accepted set, the defect is reported before any listener is created:
\* at the report no listener goroutine has been started and no address is
\* bound, for any entry of the list.
C11_InvalidTagBeforeAnyListener ==
    (proc = "panicked" /\ fires < 2 /\ slPc = "loop") =>
        \A i \in Listeners : lnPc[i] = "none" /\ sock[i] = "unbound"

\* C12 as stated: with valid tags and no bind failure, every configured
\* address is bound when startListeners blocks on the shutdown signal.
C12_BoundBeforeBlocking ==
    (slPc = "wait" /\ proc = "running") =>
        \A i \in Listeners : sock[i] # "unbound"

\* C12, amended: every configured listener goroutine has been started before
\* startListeners blocks on the shutdown signal, and a listener accepts only
\* on an address it has bound; the binding is done by the listener goroutine
\* and may come after startListeners has begun blocking.
C12_StartedBeforeBlocking ==
    /\ slPc # "loop" =>
          \A i \in Listeners : listen[i] \in ValidProtos /\ lnPc[i] # "none"
    /\ \A i \in Listeners :
          (lnPc[i] \in { "accept", "check", "dispatch" } \/ accepted[i] > 0) =>
              sock[i] # "unbound"

\* startListeners is blocking: one listener is bound and has accepted a
\* connection, the other has been started and has not bound yet.
C12_Witness ==
    /\ slPc = "wait"
    /\ proc = "running"
    /\ Len(listen) = 2
    /\ \E i, j \in Listeners :
          /\ sock[i] = "open" /\ accepted[i] = 1
          /\ lnPc[j] = "start" /\ sock[j] = "unbound"

\* C13: in the tcp+sni accept loop an Accept error caused by the closed
\* listener socket is never fatal: the socket is closed only after quit has
\* fired, so whenever that error is looked at quit is fired, and the loop
\* returns without exit.Fatal.
C13_CloseErrorNotFatal ==
    /\ [](\A i \in Listeners : sock[i] = "closed" => quit.closed)
    /\ [](\A i \in Listeners :
            (lnPc[i] = "check" /\ errCause[i] = "closed") => ChanRecvReady(quit))
    /\ [][\A i \in Listeners :
            (TcpCheckQuit(i) /\ errCause[i] = "closed") =>
                lnPc'[i] = "exited" /\ proc' = "running"]_vars

\* The closer closed the socket, Accept failed for that reason and the loop
\* returned.
C13_Witness ==
    \E i \in Listeners :
        /\ errCause[i] = "closed"
        /\ closerPc[i] = "done"
        /\ lnPc[i] = "exited"
        /\ proc = "running"

\* C14 as stated, for the tcp+sni accept loop: when Accept has returned a
\* keep-alive failure for one connection while no shutdown is in progress, the
\* loop's reaction leaves the process running and the listener accepting on
\* its open socket.
C14_KeepAliveFailureContained ==
    [][\A i \in Listeners :
         (TcpCheckQuit(i) /\ errCause[i] = "keepalive" /\ ~ChanRecvReady(quit)) =>
             proc' = "running" /\ lnPc'[i] = "accept" /\ sock'[i] = "open"]_vars

\* C14, amended: a keep-alive failure is returned as an accept error for that
\* connection: Accept leaves the listening socket open and no handler gets
\* the connection.  While no shutdown is in progress the tcp+sni accept loop
\* then calls exit.Fatal, which terminates the process; an http/https
\* listener keeps accepting only when srv.Serve takes the error for a
\* temporary one, and otherwise the error is fatal too.
C14_KeepAliveFailureFatal ==
    [][\A i \in Listeners :
         /\ (TcpAcceptErr(i) /\ errCause'[i] = "keepalive") =>
               /\ sock[i] = "open" /\ sock' = sock
               /\ handlers' = handlers /\ served' = served
               /\ lnPc'[i] = "check" /\ proc' = "running"
         /\ (TcpCheckQuit(i) /\ errCause[i] = "keepalive" /\ ~ChanRecvReady(quit)) =>
               proc' = "fatal"
         /\ \A temporary \in BOOLEAN :
              (HttpAcceptErr(i, temporary) /\ errCause'[i] = "keepalive") =>
                 /\ sock[i] = "open" /\ sock' = sock
                 /\ handlers' = handlers /\ served' = served
                 /\ IF temporary
                      THEN proc' = "running" /\ lnPc'[i] = "accept"
                      ELSE proc' = "fatal"]_vars

\* A tcp+sni listener accepted one connection, the keep-alive setup of the
\* next one failed with no shutdown in progress, and the process is gone.
C14_Witness ==
    /\ listen = << "tcp+sni" >>
    /\ errCause[1] = "keepalive"
    /\ lnPc[1] = "check"
    /\ sock[1] = "open"
    /\ accepted[1] = 1
    /\ ~quit.closed
    /\ proc = "fatal"

\* C15 as stated: once quit has fired, a tcp+sni listener accepts no further
\* connection and hands no further connection to the handler.
C15_NoAcceptAfterQuit ==
    [][\A i \in Listeners :
         (listen[i] = "tcp+sni" /\ quit.closed) =>
             accepted'[i] = accepted[i] /\ served'[i] = served[i]]_vars

\* C15, amended: connections are accepted only while the listener's socket is
\* open: once the closing goroutine has reacted to the signal the socket is
\* closed, it stays closed, and the tcp+sni listener accepts no further
\* connection.  Between the firing of the signal and that close a connection
\* can still be accepted and handed to the handler.
C15_NoAcceptAfterClose ==
    /\ [](\A i \in Listeners : closerPc[i] = "done" => sock[i] = "closed")
    /\ [][\A i \in Listeners :
            /\ sock[i] = "closed" => sock'[i] = "closed" /\ accepted'[i] = accepted[i]
            /\ accepted'[i] # accepted[i] => sock[i] = "open"]_vars

\* A listener whose accept loop began after quit had fired accepted a
\* connection and handed it to a handler before its socket was closed.
C15_Witness ==
    \E i \in lateSpawn :
        /\ listen[i] = "tcp+sni"
        /\ accepted[i] = 1
        /\ served[i] = 1
        /\ closerPc[i] = "done"
        /\ sock[i] = "closed"

RECURSIVE SumOver(_, _)
SumOver(f, S) ==
    IF S = {} THEN 0
    ELSE LET i == CHOOSE x \in S : TRUE IN f[i] + SumOver(f, S \ {i})

\* C16: in the tcp+sni accept loop every accepted connection is handed to
\* exactly one handler invocation, none twice and none dropped, and the loop
\* is back at Accept right after starting the handler, so handlers that never
\* finish do not keep it from accepting.
C16_OneHandlerPerConnection ==
    /\ [](\A i \in Listeners :
            accepted[i] = served[i] + (IF lnPc[i] = "dispatch" THEN 1 ELSE 0))
    /\ [](handlers = SumOver(served, Listeners))
    /\ [][\A i \in Listeners :
            TcpDispatch(i) =>
                /\ served'[i] = served[i] + 1
                /\ handlers' = handlers + 1
                /\ finished' = finished
                /\ lnPc'[i] = "accept"]_vars
    /\ [](\A i \in Listeners :
            ( /\ listen[i] = "tcp+sni" /\ lnPc[i] = "accept" /\ sock[i] = "open"
              /\ arrived < MaxConns /\ proc = "running" ) =>
                ENABLED TcpAcceptConn(i))

\* Two connections accepted by one tcp+sni listener, each with its handler,
\* no handler finished, and the loop is at Accept again.
C16_Witness ==
    \E i \in Listeners :
        /\ listen[i] = "tcp+sni"
        /\ accepted[i] = 2
        /\ served[i] = 2
        /\ handlers = 2
        /\ finished = 0
        /\ lnPc[i] = "accept"

\* C17: once the shutdown signal has fired, startListeners eventually
\* returns, or the process has died by a panic before it could.
\* (A weakening of the statement as written; it is violated when a listener
\* fails fatally to bind after the signal.)
C17_ReturnsAfterQuit ==
    quit.closed ~> (slPc = "returned" \/ proc = "panicked")

\* C17 as amended: once the shutdown signal has fired, startListeners
\* eventually returns unless the process is terminated first; no step of
\* startListeners waits for or touches the handlers, and the grace sleep
\* can end while handlers are running and accept loops have not exited.
C17_ReturnsUnlessTerminated ==
    /\ quit.closed ~> (slPc = "returned" \/ proc # "running")
    /\ []((slPc = "sleeping" /\ proc = "running") => ENABLED SlSleepEnd)
    /\ [][slPc' # slPc => handlers' = handlers /\ finished' = finished
                          /\ lnPc' = lnPc /\ sock' = sock]_vars

\* startListeners has returned during a running process while a dispatched
\* handler is still running and an accept loop is still accepting.
C17_Witness ==
    /\ slPc = "returned"
    /\ proc = "running"
    /\ finished < handlers
    /\ \E i \in Listeners : lnPc[i] = "accept" /\ sock[i] = "open"

\* C18: an https listener is bound, and accepts, only after the certificate
\* source and the TLS configuration were both built, and then its listener
\* is wrapped with TLS; when either construction fails the process is ended
\* with the listener unbound; an http listener has no TLS configuration and
\* is never wrapped.
C18_TlsOrNothing ==
    \A i \in Listeners :
        /\ (listen[i] = "https" /\ sock[i] # "unbound") =>
               certRes[i] = << TRUE, TRUE >> /\ tlsCfg[i] /\ wrapped[i]
        /\ (listen[i] = "https" /\ accepted[i] > 0) =>
               sock[i] # "unbound" /\ wrapped[i]
        /\ (listen[i] = "https" /\ certRes[i] \in { << TRUE, FALSE >>, << FALSE >> }) =>
               /\ proc = "fatal"
               /\ sock[i] = "unbound"
               /\ ~tlsCfg[i]
               /\ accepted[i] = 0
        /\ listen[i] = "http" =>
               ~tlsCfg[i] /\ ~wrapped[i] /\ certRes[i] = << >>

\* An https listener has accepted a connection through its TLS wrapper.
C18_Witness ==
    \E i \in Listeners :
        /\ listen[i] = "https"
        /\ certRes[i] = << TRUE, TRUE >>
        /\ accepted[i] = 1
        /\ wrapped[i]

\* An http listener has accepted a connection without one.
C18_WitnessHttp ==
    \E i \in Listeners :
        listen[i] = "http" /\ accepted[i] = 1 /\ ~wrapped[i]

\* The other case: the TLS configuration could not be built from a good
\* certificate source, and the process has ended.
C18_WitnessFatal ==
    \E i \in Listeners :
        listen[i] = "https" /\ certRes[i] = << TRUE, FALSE >> /\ proc = "fatal"

\* The merged texts that parsed, in the order watchBackend parsed them.
GoodParses == SelectSeq(parseLog, LAMBDA x : ~ParseString(x).err)

\* C19 as stated: in every state after the first publication, last is the
\* merged text from which the published snapshot was parsed.
C19_BaselineIsPublishedText ==
    pubLog # << >> =>
        /\ Len(pubLog) <= Len(GoodParses)
        /\ last = GoodParses[Len(pubLog)]

\* C19 as amended: the same in every state in which watchBackend is not
\* between route.SetTable and the assignment of last; there the published
\* snapshot is the one parsed from next, which the next step assigns to last.
\* last changes only in that step, which follows every call of route.SetTable
\* and nothing else.
C19_BaselineTracksPublication ==
    /\ [](Len(pubLog) = Len(GoodParses) - (IF wbPc = "settable" THEN 1 ELSE 0))
    /\ [](pubLog = << >> => last = << >>)
    /\ []((pubLog # << >> /\ wbPc # "setlast") =>
            /\ last = GoodParses[Len(pubLog)]
            /\ heap[table] = ParseString(last).snap)
    /\ [](wbPc = "setlast" =>
            /\ pubLog # << >>
            /\ next = GoodParses[Len(pubLog)]
            /\ heap[table] = ParseString(next).snap)
    /\ [][last' # last => wbPc = "setlast" /\ last' = next]_vars
    /\ [][pubLog' # pubLog => wbPc = "settable" /\ wbPc' = "setlast"]_vars
    /\ [][(wbPc = "setlast" /\ wbPc' # "setlast") => last' = next /\ last' # last]_vars

\* watchBackend waits for an emission after two publications with a failed
\* parse between them, the baseline being the text of the second.
C19_Witness ==
    /\ wbPc = "select"
    /\ Len(pubLog) = 2
    /\ Len(parseLog) = 3
    /\ ParseString(parseLog[2]).err
    /\ last = parseLog[3]
    /\ heap[table] = ParseString(last).snap

HasSeparator(txt) == \E j \in 1..Len(txt) : txt[j] = NL

FailedTexts(log) == SelectSeq(log, LAMBDA x : ParseString(x).err)

\* C20: every merged text contains the separator, so the first wake-up is
\* never suppressed and its merged text is the first text parsed, whatever
\* was emitted; a text that fails to parse never becomes the baseline, so
\* every wake-up that merges to a failing text parses it, again and again.
C20_FirstAndFailedAlwaysParsed ==
    /\ [](\A k \in 1..Len(mergeLog) : HasSeparator(mergeLog[k]))
    /\ [](mergeLog # << >> =>
            \/ Len(mergeLog) = 1 /\ wbPc = "parse" /\ next = mergeLog[1]
            \/ parseLog # << >> /\ parseLog[1] = mergeLog[1])
    /\ [](~ParseString(last).err)
    /\ [](FailedTexts(mergeLog) =
            FailedTexts(parseLog) \o
                (IF wbPc = "parse" /\ ParseString(next).err THEN << next >> ELSE << >>))
    /\ [][(wbPc = "merge" /\ wbPc' # "merge" /\ ParseString(next').err) =>
              wbPc' = "parse"]_vars

\* The first emission was the empty string and its merged text, the bare
\* separator, was parsed; then a text that failed to parse was merged on two
\* wake-ups in a row and parsed on both.
C20_Witness ==
    /\ recvLog # << >>
    /\ recvLog[1][2] = << >>
    /\ Len(parseLog) = 3
    /\ parseLog[1] = << NL >>
    /\ ParseString(parseLog[2]).err
    /\ parseLog[3] = parseLog[2]
    /\ wbPc = "select"

====
